---- MODULE Spec2Model ----
(***************************************************************************)
(* Professor Barky: the client-side realtime session layer of src/App.tsx. *)
(*                                                                         *)
(* The state is the React state and refs of the App component, the browser *)
(* objects they point to (audio contexts, microphone tracks, buffer        *)
(* sources, transport connections, timers) and the position of every       *)
(* asynchronous function that is suspended at an await.  Every step is one *)
(* task of the event loop: a UI handler, a transport callback, a timer     *)
(* callback, an animation frame, an audio-completion callback, or the      *)
(* continuation of an await.  A task that stored a new value in a React    *)
(* state ends with a render.  The effects (useEffect) whose dependencies   *)
(* changed in a render are run later, with the values of that render: in   *)
(* a task of their own, or at the latest before the next render.           *)
(*                                                                         *)
(* Strings are sequences of UTF-16 code units.                             *)
(***************************************************************************)
EXTENDS Integers, Sequences, FiniteSets, TLC

(***************************************************************************)
(* Bounds of the model.                                                    *)
(***************************************************************************)
MaxAttempts == 2    \* calls of startSession that get past the credential check
MaxMsgs == 2        \* server messages delivered to handleSessionMessage
MaxClock == 1       \* readings of an audio context's currentTime
MaxTranscript == 3  \* transcript entries

(***************************************************************************)
(* Program constants.                                                      *)
(***************************************************************************)
FftSize == 64           \* analyzerRef.current.fftSize
LevelDivisor == 128     \* setAudioLevel(average / 128)
AngryThreshold == 3     \* if (newCount >= 3)
HindiFirst == 2304      \* U+0900
HindiLast == 2431       \* U+097F

\* audioLevel is kept as the sum of the analyser's frequencyBinCount bytes; the
\* program's number is audioLevel / LevelScale.
LevelScale == (FftSize \div 2) * LevelDivisor

\* audioLevel < 0.01
Silent(level) == 100 * level < LevelScale

(***************************************************************************)
(* DogState (src/types.ts).  DogState.CONNECTING is used by App.tsx but is *)
(* no member of the enum, so it evaluates to undefined, a value distinct   *)
(* from every member.                                                      *)
(***************************************************************************)
IDLE == "IDLE"
LISTENING == "LISTENING"
THINKING == "THINKING"
SPEAKING == "SPEAKING"
HAPPY == "HAPPY"
ANGRY == "ANGRY"
CONNECTING == "undefined"

(***************************************************************************)
(* Texts.                                                                  *)
(***************************************************************************)
TreatText == <<68, 111, 32, 121, 111, 117, 32, 119, 97, 110, 116, 32, 97, 32,
               116, 114, 101, 97, 116, 63>>            \* 'Do you want a treat?'
ChartText == <<83, 104, 111, 119, 32, 109, 101, 32, 97, 32, 99, 104, 97, 114,
               116, 32, 111, 102, 32, 116, 111, 112, 32, 51, 32, 102, 97, 115,
               116, 101, 115, 116, 32, 97, 110, 105, 109, 97, 108, 115>>
                                     \* 'Show me a chart of top 3 fastest animals'
LoveText == <<87, 104, 111, 32, 105, 115, 32, 97, 32, 103, 111, 111, 100, 32,
              98, 111, 121, 63>>                         \* 'Who is a good boy?'
BarkPattern == <<66, 97, 114, 107>>                      \* "Bark"
\* The three buttons of App.tsx pass the texts above, none of which contains
\* "Bark": no call of handleAction enters its annoyance branch.

\* text.includes(pat)
Includes(text, pat) ==
  \E i \in 0..(Len(text) - Len(pat)) :
     \A j \in 1..Len(pat) : text[i + j] = pat[j]

\* /[\u0900-\u097F]/.test(text)
HasHindi(text) == \E i \in 1..Len(text) : text[i] \in HindiFirst..HindiLast

\* White space of String.prototype.trim among the code units the model uses.
IsSpace(c) ==
  c \in {9, 10, 11, 12, 13, 32, 160, 5760, 8232, 8233, 8239, 8287, 12288,
         65279} \cup 8192..8202

\* text.trim()
Trim(text) ==
  LET keep == {i \in 1..Len(text) : ~IsSpace(text[i])}
      Min(S) == CHOOSE x \in S : \A y \in S : x <= y
      Max(S) == CHOOSE x \in S : \A y \in S : x >= y
  IN  IF keep = {} THEN <<>> ELSE SubSeq(text, Min(keep), Max(keep))

Attempts == 1..MaxAttempts
Chunks == 1..MaxMsgs

VARIABLES
  \* React state of App
  apiKey,                \* TRUE when process.env.API_KEY is set
  dogState,
  audioLevel,
  transcriptions,
  error,
  stream,                \* 0 (null) or the attempt whose getUserMedia made it
  barkCount,
  inputText,
  boardContent,
  \* refs of App; a context, analyser or session is named by its attempt
  audioContextRef,
  outputAudioContextRef,
  nextStartTimeRef,
  activeSourcesRef,      \* set of chunk ids (one buffer source per chunk)
  sessionPromiseRef,
  analyzerRef,
  \* browser objects
  ctxIn,                 \* attempt -> "none" | "running" | "closed"
  ctxOut,
  ctxTime,               \* attempt -> currentTime of its playback context
  tracks,                \* attempt -> "none" | "live" | "stopped"
  conn,                  \* attempt -> "none" | "connecting" | "open" | "closed",
                         \* or, after onerror and before onclose, "refused"
                         \* (never opened) | "errored" (opened)
  srcState,              \* chunk -> "none" | "scheduled" | "stopped" | "ended"
  levelLoop,             \* an updateLevel animation-frame loop is running
  moodTimers,            \* pending setTimeout of the Happy/Angry effect
  watchdogs,             \* pending setInterval of the watchdog effect
  effectsDue,            \* the effects of the last render that React has
                         \* not yet run, with the values of that render
  \* suspended asynchronous functions
  attempts,              \* calls of startSession that allocated resources
  pc,                    \* attempt -> position of startSession
  capStream,             \* attempt -> `stream` closed over by its cleanupSession
  decoding,              \* handleSessionMessage calls awaiting decodeAudioData
  \* what crossed the program's boundary
  delivered,             \* number of server messages delivered
  sentTool,              \* tool responses sent (session.sendToolResponse)
  pendingThen,           \* callbacks registered with .then on a connect promise
                         \* that has not resolved, per session attempt
  \* history
  sched,                 \* chunks in the order source.start was called
                         \* since the last stopAllAudio
  schedClosed,           \* the handler call that started the last chunk of
                         \* sched went on to stopAllAudio
  recvCalls,             \* tool invocations delivered while a session existed
  sinceDispatch,         \* an input was dispatched and no tool call came since
  run,                   \* the current run of transcription fragments
  consecBarks,           \* annoying actions in a row in this session
  timerFired,            \* the mood the last auto-revert timer callback found
  turnOpen,              \* no turn-complete marker was handled since the last output fragment
  emptyStop,             \* the watermark that the last stopAllAudio found, when
                         \* it found the active set empty; -1 otherwise
  stoppedAt              \* messages delivered when stopAllAudio last ran

reactVars == <<apiKey, dogState, audioLevel, transcriptions, error, stream,
               barkCount, inputText, boardContent>>
refVars == <<audioContextRef, outputAudioContextRef, nextStartTimeRef,
             activeSourcesRef, sessionPromiseRef, analyzerRef>>
browserVars == <<ctxIn, ctxOut, ctxTime, tracks, conn, srcState, levelLoop,
                 moodTimers, watchdogs, effectsDue>>
asyncVars == <<attempts, pc, capStream, decoding>>
ioVars == <<delivered, sentTool, pendingThen>>
histVars == <<sched, schedClosed, recvCalls, sinceDispatch, run, consecBarks,
             timerFired, turnOpen, emptyStop, stoppedAt>>
vars == <<reactVars, refVars, browserVars, asyncVars, ioVars, histVars>>

NoRun == [sender |-> "none", text |-> <<>>, base |-> 0]

\* No effect is waiting to be run.
NoEffects == [mood |-> FALSE, watchdog |-> FALSE, dogState |-> "none",
              audioLevel |-> 0]

NoThen == [input |-> FALSE, tools |-> {}]

Init ==
  /\ apiKey \in BOOLEAN
  /\ dogState = IDLE
  /\ audioLevel = 0
  /\ transcriptions = <<>>
  /\ error = "null"
  /\ stream = 0
  /\ barkCount = 0
  /\ inputText = <<>>
  /\ boardContent = [title |-> "", visualType |-> "bullet_list", items |-> <<>>,
                     isVisible |-> FALSE]
  /\ audioContextRef = 0
  /\ outputAudioContextRef = 0
  /\ nextStartTimeRef = 0
  /\ activeSourcesRef = {}
  /\ sessionPromiseRef = 0
  /\ analyzerRef = 0
  /\ ctxIn = [a \in Attempts |-> "none"]
  /\ ctxOut = [a \in Attempts |-> "none"]
  /\ ctxTime = [a \in Attempts |-> 0]
  /\ tracks = [a \in Attempts |-> "none"]
  /\ conn = [a \in Attempts |-> "none"]
  /\ srcState = [c \in Chunks |-> "none"]
  /\ levelLoop = FALSE
  /\ moodTimers = {}
  /\ watchdogs = {}
  /\ effectsDue = NoEffects
  /\ attempts = 0
  /\ pc = [a \in Attempts |-> "none"]
  /\ capStream = [a \in Attempts |-> 0]
  /\ decoding = {}
  /\ delivered = 0
  /\ sentTool = {}
  /\ pendingThen = [a \in Attempts |-> NoThen]
  /\ sched = <<>>
  /\ schedClosed = FALSE
  /\ recvCalls = {}
  /\ sinceDispatch = FALSE
  /\ run = NoRun
  /\ consecBarks = 0
  /\ timerFired = "none"
  /\ turnOpen = FALSE
  /\ emptyStop = -1
  /\ stoppedAt = 0

(***************************************************************************)
(* Effects.  A render compares the dependencies of each effect with those  *)
(* of the render before; an effect whose dependencies changed is run       *)
(* after the render, its previous cleanup first, then its body, which      *)
(* closes over the values of that render.  React runs the effects of a     *)
(* render before it renders again.                                         *)
(***************************************************************************)
\* return () => clearTimeout(timer)
ClearMoodTimer(timers) == {}

\* useEffect(..., [dogState]): the Happy/Angry auto-revert timer.  due is the
\* record of the render whose effects are run.
MoodTimerEffect(timers, due) ==
  IF ~due.mood THEN timers
  ELSE ClearMoodTimer(timers) \cup
       (IF due.dogState \in {HAPPY, ANGRY} THEN {due.dogState} ELSE {})

\* useEffect(..., [dogState, audioLevel]): the watchdog interval, which closes
\* over the audioLevel of its render.
WatchdogEffect(dogs, due) ==
  IF ~due.watchdog THEN dogs
  ELSE IF due.dogState = SPEAKING THEN {due.audioLevel} ELSE {}

\* The effects that a render with the values (newState, newLevel) leaves to
\* be run, the render before it having had (oldState, oldLevel).
DueAfter(oldState, oldLevel, newState, newLevel) ==
  IF oldState = newState /\ oldLevel = newLevel THEN NoEffects
  ELSE [mood |-> oldState # newState, watchdog |-> TRUE,
        dogState |-> newState, audioLevel |-> newLevel]

\* The end of a task that leaves the timers (timers, dogs).  When the task
\* stored a new value in a state (rerender), React runs the effects that
\* the last render left, then renders; the effects of this render wait.
Commit(rerender, timers, dogs) ==
  IF rerender
  THEN /\ moodTimers' = MoodTimerEffect(timers, effectsDue)
       /\ watchdogs' = WatchdogEffect(dogs, effectsDue)
       /\ effectsDue' = DueAfter(dogState, audioLevel, dogState', audioLevel')
  ELSE /\ moodTimers' = timers
       /\ watchdogs' = dogs
       /\ UNCHANGED effectsDue

\* The end of a task that is no timer callback and whose setters store a
\* new value exactly when the value differs from the old one.
Render == Commit(reactVars' # reactVars, moodTimers, watchdogs)

\* React runs the effects of the last render in a task of their own.
RunEffects ==
  /\ effectsDue # NoEffects
  /\ moodTimers' = MoodTimerEffect(moodTimers, effectsDue)
  /\ watchdogs' = WatchdogEffect(watchdogs, effectsDue)
  /\ effectsDue' = NoEffects
  /\ UNCHANGED <<reactVars, refVars, ctxIn, ctxOut, ctxTime, tracks, conn,
                 srcState, levelLoop, asyncVars, ioVars, histVars>>

(***************************************************************************)
(* stopAllAudio and cleanupSession, as the values they leave.              *)
(***************************************************************************)
\* A stop-all that marks every buffer stopped, finished ones included.
StopEverySource(ss, active) == [c \in Chunks |-> "stopped"]

\* activeSourcesRef.current.forEach(source => source.stop())
StopSources(ss, active) ==
  [c \in Chunks |-> IF c \in active /\ ss[c] = "scheduled" THEN "stopped"
                    ELSE ss[c]]

\* ref.current.close() when ref.current is set
CloseCtx(states, ref) ==
  IF ref # 0 THEN [states EXCEPT ![ref] = "closed"] ELSE states

\* stream.getTracks().forEach(track => track.stop()) when `stream` is set
StopTracks(tr, s) ==
  IF s # 0 THEN [tr EXCEPT ![s] = "stopped"] ELSE tr

\* cleanupSession of a render whose `stream` was s
CleanupSession(s) ==
  [activeSources |-> {},
   nextStartTime |-> 0,
   srcState |-> StopSources(srcState, activeSourcesRef),
   ctxIn |-> CloseCtx(ctxIn, audioContextRef),
   ctxOut |-> CloseCtx(ctxOut, outputAudioContextRef),
   audioContext |-> 0,
   outputAudioContext |-> 0,
   tracks |-> StopTracks(tracks, s),
   stream |-> IF s # 0 THEN 0 ELSE stream,
   sessionPromise |-> 0]

\* The assignments of cleanupSession to everything but the contexts' states.
ApplyCleanup(c) ==
  /\ activeSourcesRef' = c.activeSources
  /\ nextStartTimeRef' = c.nextStartTime
  /\ srcState' = c.srcState
  /\ audioContextRef' = c.audioContext
  /\ outputAudioContextRef' = c.outputAudioContext
  /\ tracks' = c.tracks
  /\ stream' = c.stream
  /\ sessionPromiseRef' = c.sessionPromise
  /\ sched' = <<>>
  /\ schedClosed' = FALSE
  /\ emptyStop' = IF activeSourcesRef = {} THEN nextStartTimeRef ELSE -1
  /\ stoppedAt' = delivered

(***************************************************************************)
(* startSession.                                                           *)
(***************************************************************************)
\* onClick={() => dogState === DogState.IDLE && startSession()} with no
\* credential: the throw and the catch block.
\* A credential check that never fails.
NeverMissing(key) == FALSE

\* if (!apiKey)
CredentialMissing(key) == ~key

StartSessionNoKey ==
  /\ dogState = IDLE
  /\ CredentialMissing(apiKey)
  /\ LET c == CleanupSession(stream) IN
       /\ ApplyCleanup(c)
       /\ ctxIn' = c.ctxIn
       /\ ctxOut' = c.ctxOut
  /\ error' = "Invalid API Key"
  /\ dogState' = IDLE
  /\ consecBarks' = 0
  /\ UNCHANGED <<apiKey, audioLevel, transcriptions, barkCount, inputText,
                 boardContent, analyzerRef, ctxTime, conn, levelLoop,
                 asyncVars, ioVars, recvCalls, sinceDispatch, run, timerFired, turnOpen>>
  /\ Render

\* The click with a credential, up to `await ctxIn.resume()`.
StartSession ==
  /\ dogState = IDLE
  /\ ~CredentialMissing(apiKey)
  /\ attempts < MaxAttempts
  /\ LET a == attempts + 1
         c == CleanupSession(stream) IN
       /\ ApplyCleanup(c)
       /\ ctxIn' = [c.ctxIn EXCEPT ![a] = "running"]
       /\ ctxOut' = [c.ctxOut EXCEPT ![a] = "running"]
       /\ attempts' = a
       /\ pc' = [pc EXCEPT ![a] = "resume"]
       /\ capStream' = [capStream EXCEPT ![a] = stream]
  /\ error' = "null"
  /\ dogState' = CONNECTING
  /\ consecBarks' = 0
  /\ UNCHANGED <<apiKey, audioLevel, transcriptions, barkCount, inputText,
                 boardContent, analyzerRef, ctxTime, conn, levelLoop,
                 decoding, ioVars, recvCalls, sinceDispatch, run, timerFired, turnOpen>>
  /\ Render

\* The body of updateLevel: the level the analyser reads, or 0.
UpdateLevel(analyzer, active, reading) ==
  IF analyzer # 0 /\ active # {} THEN reading ELSE 0

\* Analyser readings (sums of the frequency bins) on both sides of 0.01.
Readings == {40, 41}

\* After the two resumes: the refs, the analyser, the first updateLevel(), and
\* the call of getUserMedia.
ResumeDone(a, reading) ==
  /\ pc[a] = "resume"
  /\ audioContextRef' = a
  /\ outputAudioContextRef' = a
  /\ analyzerRef' = a
  /\ levelLoop' = TRUE
  /\ audioLevel' = UpdateLevel(a, activeSourcesRef, reading)
  /\ pc' = [pc EXCEPT ![a] = "getUserMedia"]
  /\ UNCHANGED <<apiKey, dogState, transcriptions, error, stream, barkCount,
                 inputText, boardContent, nextStartTimeRef, activeSourcesRef,
                 sessionPromiseRef, ctxIn, ctxOut, ctxTime, tracks, conn,
                 srcState, attempts, capStream, decoding, ioVars, histVars>>
  /\ Render

\* getUserMedia resolved: setStream and ai.live.connect.
GetUserMediaDone(a) ==
  /\ pc[a] = "getUserMedia"
  /\ tracks' = [tracks EXCEPT ![a] = "live"]
  /\ stream' = a
  /\ sessionPromiseRef' = a
  /\ conn' = [conn EXCEPT ![a] = "connecting"]
  /\ pc' = [pc EXCEPT ![a] = "connected"]
  /\ UNCHANGED <<apiKey, dogState, audioLevel, transcriptions, error, barkCount,
                 inputText, boardContent, audioContextRef, outputAudioContextRef,
                 nextStartTimeRef, activeSourcesRef, analyzerRef, ctxIn, ctxOut,
                 ctxTime, srcState, levelLoop, attempts,
                 capStream, decoding, ioVars, histVars>>
  /\ Render

\* getUserMedia rejected: the catch block, with the cleanupSession that
\* startSession closed over.
GetUserMediaFailed(a) ==
  /\ pc[a] = "getUserMedia"
  /\ LET c == CleanupSession(capStream[a]) IN
       /\ ApplyCleanup(c)
       /\ ctxIn' = c.ctxIn
       /\ ctxOut' = c.ctxOut
  /\ error' = "getUserMedia"
  /\ dogState' = IDLE
  /\ pc' = [pc EXCEPT ![a] = "failed"]
  /\ UNCHANGED <<apiKey, audioLevel, transcriptions, barkCount, inputText,
                 boardContent, analyzerRef, ctxTime, conn, levelLoop, attempts,
                 capStream, decoding, ioVars, recvCalls, sinceDispatch,
                 run, consecBarks, timerFired, turnOpen>>
  /\ Render

(***************************************************************************)
(* Transport callbacks of the connection that attempt a opened.            *)
(***************************************************************************)
\* sessionPromiseRef.current?.then(cb): with no promise nothing happens; on a
\* promise that has resolved (its connection has opened) cb runs at once; on
\* a pending promise cb waits for the promise to resolve.
RunsNow(p) == p # 0 /\ conn[p] \in {"open", "errored"}
Waits(p) == p # 0 /\ ~RunsNow(p)

\* .then(s => s.sendRealtimeInput({text}))
ThenSendInput(q, p) == IF Waits(p) THEN [q EXCEPT ![p].input = TRUE] ELSE q

\* .then(session => session.sendToolResponse(...))
ThenSendTool(q, p, resp) ==
  IF Waits(p) THEN [q EXCEPT ![p].tools = @ \cup {resp}] ELSE q

\* onopen; the connect promise of the attempt resolves with the opening of
\* its connection, and the callbacks that waited for it run.
OnOpen(a) ==
  /\ conn[a] = "connecting"
  /\ conn' = [conn EXCEPT ![a] = "open"]
  /\ dogState' = LISTENING
  /\ sentTool' = sentTool \cup pendingThen[a].tools
  /\ sinceDispatch' = (sinceDispatch \/ pendingThen[a].input)
  /\ pendingThen' = [pendingThen EXCEPT ![a] = NoThen]
  /\ UNCHANGED <<apiKey, audioLevel, transcriptions, error, stream, barkCount,
                 inputText, boardContent, refVars, ctxIn, ctxOut, ctxTime,
                 tracks, srcState, levelLoop, asyncVars, delivered, sched,
                 schedClosed, recvCalls, run, consecBarks, timerFired,
                 turnOpen, emptyStop, stoppedAt>>
  /\ Render

OnError(a) ==
  /\ conn[a] \in {"connecting", "open"}
  /\ conn' = [conn EXCEPT ![a] = IF @ = "open" THEN "errored" ELSE "refused"]
  /\ error' = "Connection slip. Reconnecting..."
  /\ dogState' = IDLE
  /\ LET c == CleanupSession(capStream[a]) IN
       /\ ApplyCleanup(c)
       /\ ctxIn' = c.ctxIn
       /\ ctxOut' = c.ctxOut
  /\ UNCHANGED <<apiKey, audioLevel, transcriptions, barkCount, inputText,
                 boardContent, analyzerRef, ctxTime, levelLoop, asyncVars,
                 ioVars, recvCalls, sinceDispatch, run, consecBarks, timerFired, turnOpen>>
  /\ Render

OnClose(a) ==
  /\ conn[a] \in {"connecting", "open", "errored", "refused"}
  /\ conn' = [conn EXCEPT ![a] = "closed"]
  /\ dogState' = IDLE
  /\ LET c == CleanupSession(capStream[a]) IN
       /\ ApplyCleanup(c)
       /\ ctxIn' = c.ctxIn
       /\ ctxOut' = c.ctxOut
  /\ UNCHANGED <<apiKey, audioLevel, transcriptions, error, barkCount,
                 inputText, boardContent, analyzerRef, ctxTime, levelLoop,
                 asyncVars, ioVars, recvCalls, sinceDispatch, run,
                 consecBarks, timerFired, turnOpen>>
  /\ Render

(***************************************************************************)
(* Server messages.  A message carries any of: tool calls, an output       *)
(* transcription fragment, grounding chunks, an input transcription        *)
(* fragment, an audio chunk (its decoded duration; 0 for none), the        *)
(* turn-complete marker and the interruption marker.  A missing text is    *)
(* the empty text (both are falsy), missing grounding chunks are the empty *)
(* list (both leave no sources), a grounding chunk without a `web` field   *)
(* has uri 0.                                                              *)
(***************************************************************************)
Msg(calls, out, ground, in, audio, tc, intr) ==
  [calls |-> calls, outText |-> out, ground |-> ground, inText |-> in,
   audio |-> audio, turnComplete |-> tc, interrupted |-> intr]

\* [...prev, { text, sender, timestamp }]; the timestamp is not modelled
Entry(text, sender) == [text |-> text, sender |-> sender, webSources |-> <<>>]

\* An updater that overwrites the text of the last entry.
ReplaceFragment(prev, text, sender) ==
  IF Len(prev) > 0 /\ prev[Len(prev)].sender = sender
  THEN [prev EXCEPT ![Len(prev)].text = text]
  ELSE Append(prev, [text |-> text, sender |-> sender, webSources |-> <<>>])

\* The updater of both transcription handlers.
AppendFragment(prev, text, sender) ==
  IF Len(prev) > 0 /\ prev[Len(prev)].sender = sender
  THEN [prev EXCEPT ![Len(prev)].text = @ \o text]
  ELSE Append(prev, Entry(text, sender))

\* groundingChunks.map(c => c.web).filter(w => w).map(...)
WebSources(chunks) ==
  LET HasWeb(c) == c.uri # 0 IN SelectSeq(chunks, HasWeb)

\* sources.filter(s => !existing.some(e => e.uri === s.uri))
NewSources(sources, existing) ==
  LET Fresh(s) == \A i \in 1..Len(existing) : existing[i].uri # s.uri
  IN  SelectSeq(sources, Fresh)

\* The updater of the grounding handler.
MergeSources(prev, sources) ==
  IF Len(prev) > 0 /\ prev[Len(prev)].sender = "dog"
  THEN LET existing == prev[Len(prev)].webSources
           newSources == NewSources(sources, existing)
       IN  IF Len(newSources) = 0 THEN prev
           ELSE [prev EXCEPT ![Len(prev)].webSources = existing \o newSources]
  ELSE prev

\* Section 2 of handleSessionMessage: the three transcript updates in order.
AfterOutput(prev, m) ==
  IF m.outText # <<>> THEN AppendFragment(prev, m.outText, "dog") ELSE prev

AfterGrounding(prev, m) ==
  IF Len(WebSources(m.ground)) > 0
  THEN MergeSources(prev, WebSources(m.ground)) ELSE prev

AfterInput(prev, m) ==
  IF m.inText # <<>> /\ ~HasHindi(m.inText)
  THEN AppendFragment(prev, m.inText, "user") ELSE prev

Transcribed(prev, m) == AfterInput(AfterGrounding(AfterOutput(prev, m), m), m)

\* The run of fragments after a fragment of `sender` was accepted.
RunAfter(r, text, sender, len) ==
  IF r.sender = sender THEN [r EXCEPT !.text = @ \o text]
  ELSE [sender |-> sender, text |-> text, base |-> len]

RunAfterMsg(r, prev, m) ==
  LET r1 == IF m.outText # <<>>
            THEN RunAfter(r, m.outText, "dog", Len(prev)) ELSE r
      mid == AfterGrounding(AfterOutput(prev, m), m)
  IN  IF m.inText # <<>> /\ ~HasHindi(m.inText)
      THEN RunAfter(r1, m.inText, "user", Len(mid)) ELSE r1

\* The ids the server gives the tool calls of the n-th message.
CallId(n, i) == <<n, i>>

\* An updater that leaves the mood as it is.
KeepsMood(prev) == prev

\* setDogState(prev => prev === ANGRY ? ANGRY : SPEAKING)
SpeakingUnlessAngry(prev) == IF prev = ANGRY THEN ANGRY ELSE SPEAKING

\* A turn-complete handler that does not look at the active set.
TurnCompleteAlways(prev, active, tc) ==
  IF tc THEN LISTENING ELSE prev

\* if (serverContent?.turnComplete) ...
AfterTurnComplete(prev, active, tc) ==
  IF tc /\ active = {} THEN LISTENING ELSE prev

\* An end of handleSessionMessage that ignores the interruption marker.
TailWithoutInterrupt(ds, active, next, ss, tc, intr) ==
  [dogState |-> IF tc /\ active = {} THEN LISTENING ELSE ds,
   activeSources |-> active, nextStartTime |-> next, srcState |-> ss]

\* The end of handleSessionMessage, from the state (ds, active, next, ss) that
\* the part before it left: turnComplete, then interrupted.
MessageTail(ds, active, next, ss, tc, intr) ==
  LET ds1 == AfterTurnComplete(ds, active, tc) IN
  IF intr
  THEN [dogState |-> LISTENING, activeSources |-> {}, nextStartTime |-> 0,
        srcState |-> StopSources(ss, active)]
  ELSE [dogState |-> ds1, activeSources |-> active, nextStartTime |-> next,
        srcState |-> ss]

\* onmessage of the connection of attempt a: handleSessionMessage up to the
\* await of decodeAudioData, or to its end when nothing is decoded.
\* Whether the agent's turn is open after handleSessionMessage ran on m
\* without awaiting: an output fragment opens it, the turn-complete marker,
\* handled last, closes it.
TurnOpenAfter(open, m) ==
  LET o1 == open \/ m.outText # <<>>
      whole == m.audio = 0 \/ outputAudioContextRef = 0
  IN  o1 /\ ~(whole /\ m.turnComplete)

HandleSessionMessage(a, m) ==
  /\ conn[a] = "open"
  /\ delivered < MaxMsgs
  /\ Len(Transcribed(transcriptions, m)) <= MaxTranscript
  /\ delivered' = delivered + 1
  \* 1. tool calls
  /\ IF Len(m.calls) > 0 /\ m.calls[1].name = "updateBoard"
     THEN /\ boardContent' = [title |-> m.calls[1].args.title,
                              visualType |-> m.calls[1].args.visualType,
                              items |-> m.calls[1].args.items,
                              isVisible |-> TRUE]
          /\ LET resp == [to |-> sessionPromiseRef,
                           id |-> CallId(delivered + 1, 1),
                           name |-> m.calls[1].name] IN
               /\ sentTool' = IF RunsNow(sessionPromiseRef)
                              THEN sentTool \cup {resp} ELSE sentTool
               /\ pendingThen' =
                    ThenSendTool(pendingThen, sessionPromiseRef, resp)
     ELSE UNCHANGED <<boardContent, sentTool, pendingThen>>
  /\ recvCalls' = IF sessionPromiseRef # 0
                  THEN recvCalls \cup
                       {[id |-> CallId(delivered + 1, i), name |-> m.calls[i].name] :
                          i \in 1..Len(m.calls)}
                  ELSE recvCalls
  /\ sinceDispatch' = IF Len(m.calls) > 0 THEN FALSE ELSE sinceDispatch
  \* 2. transcriptions and grounding
  /\ transcriptions' = Transcribed(transcriptions, m)
  /\ run' = RunAfterMsg(run, transcriptions, m)
  /\ turnOpen' = TurnOpenAfter(turnOpen, m)
  \* 3. audio
  /\ IF m.audio # 0 /\ outputAudioContextRef # 0
     THEN /\ dogState' = SpeakingUnlessAngry(dogState)
          /\ decoding' = decoding \cup
               {[id |-> delivered + 1, ctx |-> outputAudioContextRef,
                 dur |-> m.audio, turnComplete |-> m.turnComplete,
                 interrupted |-> m.interrupted]}
          /\ UNCHANGED <<activeSourcesRef, nextStartTimeRef, srcState, sched,
                         schedClosed, emptyStop, stoppedAt>>
     ELSE LET t == MessageTail(dogState, activeSourcesRef, nextStartTimeRef, srcState,
                        m.turnComplete, m.interrupted) IN
          /\ dogState' = t.dogState
          /\ activeSourcesRef' = t.activeSources
          /\ nextStartTimeRef' = t.nextStartTime
          /\ srcState' = t.srcState
          /\ sched' = IF m.interrupted THEN <<>> ELSE sched
          /\ schedClosed' = IF m.interrupted THEN FALSE ELSE schedClosed
          /\ emptyStop' = IF ~m.interrupted THEN emptyStop
                          ELSE IF activeSourcesRef = {} THEN nextStartTimeRef
                          ELSE -1
          /\ stoppedAt' = IF m.interrupted THEN delivered + 1 ELSE stoppedAt
          /\ UNCHANGED decoding
  /\ UNCHANGED <<apiKey, audioLevel, error, stream, barkCount, inputText,
                 audioContextRef, outputAudioContextRef, sessionPromiseRef,
                 analyzerRef, ctxIn, ctxOut, ctxTime, tracks, conn, levelLoop,
                 attempts, pc, capStream, consecBarks, timerFired>>
  \* setBoardContent({...}) stores a new object whatever it holds
  /\ Commit(reactVars' # reactVars
              \/ (Len(m.calls) > 0 /\ m.calls[1].name = "updateBoard"),
            moodTimers, watchdogs)

\* A scheduler without the watermark: every chunk starts at once.
StartNow(next, now) == now

\* const startTime = Math.max(nextStartTimeRef.current, ctx.currentTime)
ScheduleStart(next, now) == IF next >= now THEN next ELSE now

\* decodeAudioData resolved: the rest of handleSessionMessage for that message.
DecodeDone(d) ==
  /\ d \in decoding
  /\ decoding' = decoding \ {d}
  /\ LET startTime == ScheduleStart(nextStartTimeRef, ctxTime[d.ctx])
         t == MessageTail(dogState, activeSourcesRef \cup {d.id}, startTime + d.dur,
                   [srcState EXCEPT ![d.id] = "scheduled"],
                   d.turnComplete, d.interrupted)
     IN  /\ sched' = Append(IF schedClosed THEN <<>> ELSE sched,
                            [id |-> d.id, start |-> startTime, dur |-> d.dur,
                             ctx |-> d.ctx])
         /\ schedClosed' = d.interrupted
         /\ emptyStop' = IF d.interrupted THEN -1 ELSE emptyStop
         /\ stoppedAt' = IF d.interrupted THEN delivered ELSE stoppedAt
         /\ turnOpen' = (turnOpen /\ ~d.turnComplete)
         /\ dogState' = t.dogState
         /\ activeSourcesRef' = t.activeSources
         /\ nextStartTimeRef' = t.nextStartTime
         /\ srcState' = t.srcState
  /\ UNCHANGED <<apiKey, audioLevel, transcriptions, error, stream, barkCount,
                 inputText, boardContent, audioContextRef, outputAudioContextRef,
                 sessionPromiseRef, analyzerRef, ctxIn, ctxOut, ctxTime, tracks,
                 conn, levelLoop, attempts, pc, capStream, ioVars, recvCalls,
                 sinceDispatch, run, consecBarks, timerFired>>
  /\ Render

\* The sched record of chunk c.
Scheduled(c) == CHOOSE s \in {sched[i] : i \in 1..Len(sched)} : s.id = c

\* The playback context of chunk c has played it to its end.  The reading
\* MaxClock stands for every later time of a running context.
PlayedOut(c) ==
  LET s == Scheduled(c) IN
  \/ ctxTime[s.ctx] >= s.start + s.dur
  \/ ctxTime[s.ctx] = MaxClock /\ ctxOut[s.ctx] = "running"

\* source.onended of chunk c, after it played out or was stopped.
OnEnded(c) ==
  /\ \/ srcState[c] = "stopped"
     \/ srcState[c] = "scheduled" /\ PlayedOut(c)
  /\ srcState' = [srcState EXCEPT ![c] = "ended"]
  /\ activeSourcesRef' = activeSourcesRef \ {c}
  /\ dogState' = IF activeSourcesRef' = {} THEN LISTENING ELSE dogState
  /\ UNCHANGED <<apiKey, audioLevel, transcriptions, error, stream, barkCount,
                 inputText, boardContent, audioContextRef, outputAudioContextRef,
                 nextStartTimeRef, sessionPromiseRef, analyzerRef, ctxIn, ctxOut,
                 ctxTime, tracks, conn, levelLoop, asyncVars, ioVars, histVars>>
  /\ Render

\* The clock of a running playback context advances.
Tick(a) ==
  /\ ctxOut[a] = "running"
  /\ ctxTime[a] < MaxClock
  /\ ctxTime' = [ctxTime EXCEPT ![a] = @ + 1]
  /\ UNCHANGED <<reactVars, refVars, ctxIn, ctxOut, tracks, conn, srcState,
                 levelLoop, moodTimers, watchdogs, effectsDue, asyncVars, ioVars, histVars>>

(***************************************************************************)
(* Timer and animation-frame callbacks.                                    *)
(***************************************************************************)
\* requestAnimationFrame(updateLevel)
AnimationFrame(reading) ==
  /\ levelLoop
  /\ audioLevel' = UpdateLevel(analyzerRef, activeSourcesRef, reading)
  /\ UNCHANGED <<apiKey, dogState, transcriptions, error, stream, barkCount,
                 inputText, boardContent, refVars, ctxIn, ctxOut, ctxTime,
                 tracks, conn, srcState, levelLoop, asyncVars, ioVars, histVars>>
  /\ Render

\* The setTimeout callback of the Happy/Angry effect.
MoodTimerFire(t) ==
  /\ t \in moodTimers
  /\ dogState' = LISTENING
  /\ timerFired' = dogState
  /\ UNCHANGED <<apiKey, audioLevel, transcriptions, error, stream, barkCount,
                 inputText, boardContent, refVars, ctxIn, ctxOut, ctxTime,
                 tracks, conn, srcState, levelLoop, asyncVars, ioVars, sched,
                 schedClosed, recvCalls, sinceDispatch, run, consecBarks,
                 turnOpen, emptyStop, stoppedAt>>
  \* the timeout that ran is no longer pending
  /\ Commit(reactVars' # reactVars, moodTimers \ {t}, watchdogs)

\* The setInterval callback of the watchdog effect, when its test passes.
WatchdogTick(level) ==
  /\ level \in watchdogs
  /\ Silent(level) /\ activeSourcesRef = {}
  /\ dogState' = LISTENING
  /\ UNCHANGED <<apiKey, audioLevel, transcriptions, error, stream, barkCount,
                 inputText, boardContent, refVars, ctxIn, ctxOut, ctxTime,
                 tracks, conn, srcState, levelLoop, asyncVars, ioVars, histVars>>
  /\ Render

(***************************************************************************)
(* UI handlers.                                                            *)
(***************************************************************************)
\* An updater that leaves the board as it is.
KeepsBoard(board) == board

\* setBoardContent(prev => ({ ...prev, isVisible: false }))
Hidden(board) == [board EXCEPT !.isVisible = FALSE]

\* An annoyance test that every scripted action passes.
AnyActionAnnoys(text, count) == TRUE

\* text.includes("Bark") and newCount >= 3, newCount being barkCount + 1
Annoyed(text, count) ==
  Includes(text, BarkPattern) /\ count + 1 >= AngryThreshold

\* A run of fragments ends when the user's own text is appended.
RunAfterUserEntry(r) == NoRun

HandleAction(text, mood) ==
  /\ dogState \notin {IDLE, CONNECTING}
  /\ IF Includes(text, BarkPattern)
     THEN /\ barkCount' = barkCount + 1
          /\ consecBarks' = consecBarks + 1
     ELSE /\ barkCount' = 0
          /\ consecBarks' = 0
  /\ IF Annoyed(text, barkCount)
     THEN /\ dogState' = ANGRY
          /\ UNCHANGED <<boardContent, transcriptions, run>>
     ELSE /\ Len(transcriptions) < MaxTranscript
          /\ dogState' = mood
          /\ boardContent' = Hidden(boardContent)
          /\ transcriptions' = Append(transcriptions, Entry(text, "user"))
          /\ run' = RunAfterUserEntry(run)
  /\ sinceDispatch' = (sinceDispatch \/ RunsNow(sessionPromiseRef))
  /\ pendingThen' = ThenSendInput(pendingThen, sessionPromiseRef)
  /\ UNCHANGED <<apiKey, audioLevel, error, stream, inputText, refVars, ctxIn,
                 ctxOut, ctxTime, tracks, conn, srcState, levelLoop, asyncVars,
                 delivered, sentTool, sched, schedClosed, recvCalls, timerFired, turnOpen, emptyStop, stoppedAt>>
  /\ Render

\* onChange of the text input, which is disabled while Idle or Connecting.
SetInputText(text) ==
  /\ dogState \notin {IDLE, CONNECTING}
  /\ inputText' = text
  /\ UNCHANGED <<apiKey, dogState, audioLevel, transcriptions, error, stream,
                 barkCount, boardContent, refVars, ctxIn, ctxOut, ctxTime,
                 tracks, conn, srcState, levelLoop,
                 asyncVars, ioVars, histVars>>
  /\ Render

HandleSendMessage ==
  /\ Trim(inputText) # <<>>
  /\ dogState \notin {IDLE, CONNECTING}
  /\ Len(transcriptions) < MaxTranscript
  /\ inputText' = <<>>
  /\ boardContent' = Hidden(boardContent)
  /\ transcriptions' = Append(transcriptions, Entry(inputText, "user"))
  /\ run' = RunAfterUserEntry(run)
  /\ sinceDispatch' = (sinceDispatch \/ RunsNow(sessionPromiseRef))
  /\ pendingThen' = ThenSendInput(pendingThen, sessionPromiseRef)
  /\ consecBarks' = 0
  /\ UNCHANGED <<apiKey, dogState, audioLevel, error, stream, barkCount,
                 refVars, ctxIn, ctxOut, ctxTime,
                 tracks, conn, srcState, levelLoop,
                 asyncVars, delivered, sentTool, sched, schedClosed,
                 recvCalls, timerFired, turnOpen, emptyStop, stoppedAt>>
  /\ Render

\* onClose of the board
CloseBoard ==
  /\ boardContent.isVisible
  /\ boardContent' = Hidden(boardContent)
  /\ UNCHANGED <<apiKey, dogState, audioLevel, transcriptions, error, stream,
                 barkCount, inputText, refVars, ctxIn, ctxOut, ctxTime,
                 tracks, conn, srcState, levelLoop,
                 asyncVars, ioVars, histVars>>
  /\ Render

(***************************************************************************)
(* The inputs the environment draws from.                                  *)
(***************************************************************************)
ChartArgs == [title |-> "Fastest animals", visualType |-> "bar_chart",
              items |-> <<[heading |-> "Cheetah", content |-> "10"]>>]
ListArgs == [title |-> "Notes", visualType |-> "bullet_list", items |-> <<>>]
BoardCall(args) == [name |-> "updateBoard", args |-> args]
OtherCall == [name |-> "otherTool", args |-> ListArgs]

CallLists == {<<BoardCall(ChartArgs)>>, <<BoardCall(ListArgs)>>, <<OtherCall>>,
              <<BoardCall(ChartArgs), BoardCall(ListArgs)>>,
              <<OtherCall, BoardCall(ChartArgs)>>}

Web(u) == [uri |-> u, title |-> u]
NoWeb == [uri |-> 0, title |-> 0]
GroundLists == {<<Web(1)>>, <<Web(2)>>, <<Web(1), Web(1)>>, <<Web(1), Web(2)>>,
                <<NoWeb>>, <<>>}

OutFragments == {<<97>>, <<98>>}           \* "a", "b"
InFragments == {<<99>>, <<2309>>}          \* "c", a Devanagari letter
InputTexts == {<<>>, <<32>>, <<104, 105>>} \* "", " ", "hi"

\* The texts and moods that the three buttons pass to handleAction, its only
\* callers.  No text contains "Bark".
Actions == {<<TreatText, HAPPY>>, <<ChartText, SPEAKING>>, <<LoveText, HAPPY>>}


ToolMsgs == {Msg(c, <<>>, <<>>, <<>>, 0, FALSE, FALSE) : c \in CallLists}
TextMsgs ==
  {Msg(<<>>, o, <<>>, <<>>, 0, FALSE, FALSE) : o \in OutFragments} \cup
  {Msg(<<>>, <<>>, <<>>, i, 0, FALSE, FALSE) : i \in InFragments} \cup
  {Msg(<<>>, <<97>>, <<>>, <<99>>, 0, FALSE, FALSE)}
GroundMsgs ==
  {Msg(<<>>, <<>>, g, <<>>, 0, FALSE, FALSE) : g \in GroundLists} \cup
  {Msg(<<>>, <<98>>, <<Web(1)>>, <<>>, 0, FALSE, FALSE)}
Durations == {1, 2}                        \* buffer.duration of a chunk
AudioMsgs ==
  {Msg(<<>>, <<>>, <<>>, <<>>, d, tc, FALSE) : d \in Durations, tc \in BOOLEAN}
  \cup {Msg(<<>>, <<>>, <<>>, <<>>, 1, FALSE, TRUE)}
SchedMsgs ==
  {Msg(<<>>, <<>>, <<>>, <<>>, d, FALSE, FALSE) : d \in Durations} \cup
  {Msg(<<>>, <<>>, <<>>, <<>>, d, FALSE, TRUE) : d \in {0, 1}}
MoodMsgs == {Msg(<<>>, <<>>, <<>>, <<>>, 1, FALSE, FALSE),
             Msg(<<>>, <<>>, <<>>, <<>>, 0, FALSE, TRUE)}
MarkerMsgs == {Msg(<<>>, <<>>, <<>>, <<>>, 0, TRUE, FALSE),
               Msg(<<>>, <<>>, <<>>, <<>>, 0, FALSE, TRUE)}

(***************************************************************************)
(* Specifications.                                                         *)
(***************************************************************************)
Start == StartSessionNoKey \/ StartSession
Resumed == \E a \in Attempts, r \in Readings : ResumeDone(a, r)
Granted == \E a \in Attempts : GetUserMediaDone(a)
Denied == \E a \in Attempts : GetUserMediaFailed(a)
Opened == \E a \in Attempts : OnOpen(a)
Errored == \E a \in Attempts : OnError(a)
Closed == \E a \in Attempts : OnClose(a)
Decoded == \E d \in decoding : DecodeDone(d)
Ended == \E c \in Chunks : OnEnded(c)
Clock == \E a \in Attempts : Tick(a)
Frame == \E r \in Readings : AnimationFrame(r)
Effects == RunEffects
MoodTimer == \E t \in moodTimers : MoodTimerFire(t)
Watchdog == \E l \in watchdogs : WatchdogTick(l)
ActionOf(actions) == \E x \in actions : HandleAction(x[1], x[2])
Action == ActionOf(Actions)
Typed == \E text \in InputTexts : SetInputText(text)
Message(msgs) == \E a \in Attempts, m \in msgs : HandleSessionMessage(a, m)

Session == Start \/ Resumed \/ Granted \/ Denied \/ Opened \/ Errored \/ Closed
Timers == Frame \/ MoodTimer \/ Watchdog \/ Effects
User == Action \/ Typed \/ HandleSendMessage \/ CloseBoard
Playback == Decoded \/ Ended \/ Clock

Next ==
  \/ Session
  \/ Message(ToolMsgs \cup TextMsgs \cup GroundMsgs \cup AudioMsgs \cup MarkerMsgs)
  \/ Playback
  \/ Timers
  \/ User

Spec == Init /\ [][Next]_vars

(***************************************************************************)
(* The playback scheduler alone: sessions with every way a start or a     *)
(* connection can end, audio chunks and markers, the decodes, the          *)
(* completions and the clocks.  The steps left out are the timer           *)
(* callbacks, the task in which React runs effects, and the UI handlers,   *)
(* none of which writes the watermark, the active set, a source or a       *)
(* clock.                                                                  *)
(***************************************************************************)
NextAudio ==
  \/ Start \/ Resumed \/ Granted \/ Denied \/ Opened \/ Errored \/ Closed
  \/ Message(SchedMsgs)
  \/ Playback

SpecAudio == Init /\ [][NextAudio]_vars

(***************************************************************************)
(* The transcript, the board and the bark counter: a session that connects *)
(* and stays open, messages without audio, the user with the three         *)
(* buttons and the text input, and the auto-revert timer.                  *)
(***************************************************************************)
NextChat ==
  \/ Start \/ Resumed \/ Granted \/ Opened
  \/ Message(ToolMsgs \cup TextMsgs \cup GroundMsgs)
  \/ Action \/ Typed \/ HandleSendMessage \/ CloseBoard
  \/ MoodTimer \/ Effects

SpecChat == Init /\ [][NextChat]_vars

(***************************************************************************)
(* The mood: a session that connects and stays open, audio and             *)
(* interruptions, the auto-revert timer, and the scripted actions.  A      *)
(* timer callback that is due runs, a decode completes, a running          *)
(* context's clock advances, and a source that has played out ends.        *)
(***************************************************************************)
NaturalEnd(c) == srcState[c] = "scheduled" /\ OnEnded(c)

NextMood ==
  \/ Start \/ Resumed \/ Granted \/ Opened
  \/ Message(MoodMsgs)
  \/ Playback
  \/ MoodTimer \/ Effects
  \/ Action

SpecMood ==
  /\ Init /\ [][NextMood]_vars
  /\ WF_vars(MoodTimer) /\ WF_vars(Effects)
  /\ WF_vars(Decoded) /\ WF_vars(Clock)
  /\ \A c \in Chunks : WF_vars(NaturalEnd(c))

(***************************************************************************)
(* C1.  Between two stop-all operations the chunks start in the order they *)
(* were scheduled, at non-decreasing times, and each no earlier than the   *)
(* end (start + duration) of the chunk scheduled before it, whatever the   *)
(* order in which the decodes completed.                                   *)
(***************************************************************************)
C1_NoOverlap ==
  \A i \in 1..(Len(sched) - 1) :
     /\ sched[i + 1].start >= sched[i].start
     /\ sched[i + 1].start >= sched[i].start + sched[i].dur

\* Two chunks scheduled since the last stop-all, the later message first.
C1_Witness ==
  /\ Len(sched) >= 2
  /\ sched[1].id > sched[2].id

(***************************************************************************)
(* C2.  Chunks of one session start in arrival order: if A was delivered   *)
(* to handleSessionMessage before B, A starts no later than B.             *)
(***************************************************************************)
C2_ArrivalOrder ==
  \A i, j \in 1..Len(sched) :
     (sched[i].ctx = sched[j].ctx /\ sched[i].id < sched[j].id)
        => sched[i].start <= sched[j].start

(***************************************************************************)
(* Sessions with every way a start or a connection can fail, and playback. *)
(***************************************************************************)
NextSession ==
  \/ Session
  \/ Message(SchedMsgs)
  \/ Playback

SpecSession == Init /\ [][NextSession]_vars

(***************************************************************************)
(* C3.  After onerror or onclose of a session's connection has run, the    *)
(* mood is Idle, the active set is empty, the watermark is 0, the          *)
(* session's two audio contexts are closed and their refs cleared, every   *)
(* microphone track of the session's stream is stopped and the session     *)
(* handle is absent.                                                       *)
(***************************************************************************)
Released(a) ==
  /\ dogState = IDLE
  /\ activeSourcesRef = {}
  /\ nextStartTimeRef = 0
  /\ audioContextRef = 0 /\ ctxIn[a] = "closed"
  /\ outputAudioContextRef = 0 /\ ctxOut[a] = "closed"
  /\ tracks[a] = "stopped"
  /\ sessionPromiseRef = 0

C3_TeardownReleases ==
  [][\A a \in Attempts : (OnError(a) \/ OnClose(a)) => Released(a)']_vars

(***************************************************************************)
(* C4.  Every tool invocation delivered while a session exists is answered *)
(* with a tool response carrying its call id and name, whatever its name   *)
(* and its place in functionCalls.                                         *)
(***************************************************************************)
C4_EveryCallAcked ==
  \A c \in recvCalls : \E s \in sentTool : s.id = c.id /\ s.name = c.name

(***************************************************************************)
(* The board: a session that connects and stays open, tool calls, the      *)
(* three buttons, typed messages and the board's close button.             *)
(***************************************************************************)
NextInput ==
  \/ Start \/ Resumed \/ Granted \/ Opened
  \/ Message(ToolMsgs)
  \/ Action \/ Typed \/ HandleSendMessage \/ CloseBoard

SpecInput == Init /\ [][NextInput]_vars

(***************************************************************************)
(* C5.  While an input has been dispatched to the session (a scripted      *)
(* action, the one that triggers Angry included, or a typed message) and   *)
(* no tool call has arrived since, the board is hidden.                    *)
(***************************************************************************)
C5_HiddenUntilToolCall == sinceDispatch => ~boardContent.isVisible

\* A tool call had filled the board and answered the input before it; an
\* input dispatched since then has hidden the board, items and all.
C5_Witness ==
  /\ sinceDispatch /\ recvCalls # {}
  /\ boardContent.items # <<>> /\ ~boardContent.isVisible
  /\ Len(transcriptions) >= 2

(***************************************************************************)
(* C6.  A run of transcription fragments of one sender adds exactly one    *)
(* entry to the transcript, the last one, whose sender is the run's and    *)
(* whose text is the concatenation of the run's fragments in arrival       *)
(* order.                                                                  *)
(***************************************************************************)
C6_RunIsOneEntry ==
  run.sender # "none" =>
    /\ Len(transcriptions) = run.base + 1
    /\ transcriptions[Len(transcriptions)].sender = run.sender
    /\ transcriptions[Len(transcriptions)].text = run.text

(***************************************************************************)
(* C7.  No transcript entry lists two sources with the same uri.           *)
(***************************************************************************)
C7_SourcesDeduplicated ==
  \A i \in 1..Len(transcriptions) :
     LET ws == transcriptions[i].webSources IN
     \A j, k \in 1..Len(ws) : j # k => ws[j].uri # ws[k].uri

(***************************************************************************)
(* The user alone: sessions that connect, close and are started again,     *)
(* the three buttons and typed messages.                                   *)
(***************************************************************************)
NextAnnoy ==
  \/ Start \/ Resumed \/ Granted \/ Opened \/ Closed
  \/ Action \/ Typed \/ HandleSendMessage

SpecAnnoy == Init /\ [][NextAnnoy]_vars

C9_AutoRevert ==
  /\ [][\A t \in moodTimers :
         MoodTimerFire(t) => IF dogState = t THEN dogState' = LISTENING
                             ELSE dogState' = dogState]_vars
  /\ \A mood \in {HAPPY, ANGRY} : (dogState = mood) ~> (dogState # mood)

(***************************************************************************)
(* Restarts: sessions that connect, close and are started again, audio,    *)
(* the level loop and the watchdog, and the scripted chart request.  The   *)
(* watchdog and animation-frame callbacks that are due run, a decode       *)
(* completes, a running context's clock advances, and a source that has    *)
(* played out ends.                                                        *)
(***************************************************************************)
RestartActions == {<<ChartText, SPEAKING>>}
RestartMsgs == {Msg(<<>>, <<>>, <<>>, <<>>, 1, FALSE, FALSE)}

NextRestart ==
  \/ Start \/ Resumed \/ Granted \/ Opened \/ Closed
  \/ Message(RestartMsgs)
  \/ Playback
  \/ Frame \/ Watchdog \/ Effects
  \/ ActionOf(RestartActions)

SpecRestart ==
  /\ Init /\ [][NextRestart]_vars
  /\ WF_vars(Watchdog) /\ WF_vars(Frame) /\ WF_vars(Effects)
  /\ WF_vars(Decoded) /\ WF_vars(Clock)
  /\ \A c \in Chunks : WF_vars(NaturalEnd(c))

(***************************************************************************)
(* C10.  A state whose mood is Speaking while the active playback set is   *)
(* empty leads to a state whose mood is not Speaking.                      *)
(***************************************************************************)
C10_SpeakingHeals ==
  (dogState = SPEAKING /\ activeSourcesRef = {}) ~> (dogState # SPEAKING)

(***************************************************************************)
(* C11.  At most one transport connection is open at a time: of the        *)
(* connections that startSession opened, at most one has not yet been      *)
(* closed.                                                                 *)
(***************************************************************************)
C11_OneConnection ==
  Cardinality({a \in Attempts : conn[a] \in {"open", "errored"}}) <= 1

(***************************************************************************)
(* C12.  A server message that carries only the interruption marker and    *)
(* arrives while the active playback set is empty is a no-op on the        *)
(* scheduler: the active set and the watermark keep their values.          *)
(***************************************************************************)
InterruptOnly ==
  \E a \in Attempts, m \in SchedMsgs :
    m.interrupted /\ m.audio = 0 /\ HandleSessionMessage(a, m)

C12_StopAllNoOp ==
  [][(InterruptOnly /\ activeSourcesRef = {})
       => UNCHANGED <<activeSourcesRef, nextStartTimeRef>>]_vars

(***************************************************************************)
(* C12, amended.  Such a message is handled (no error), leaves the active  *)
(* set empty and every buffer as it was, and sets the watermark to 0; the  *)
(* start time of the next chunk is the same as without it whenever the     *)
(* playback clock has reached the old watermark.  With a non-empty active  *)
(* set, buffers that have played out included, it also leaves the set      *)
(* empty and the watermark 0.                                              *)
(***************************************************************************)
C12_StopAllOnEmpty ==
  [][InterruptOnly =>
       /\ activeSourcesRef' = {} /\ nextStartTimeRef' = 0
       /\ activeSourcesRef = {} =>
            /\ srcState' = srcState
            /\ \A a \in Attempts :
                 nextStartTimeRef <= ctxTime[a] =>
                   ScheduleStart(nextStartTimeRef', ctxTime[a])
                     = ScheduleStart(nextStartTimeRef, ctxTime[a])]_vars

\* In an open session whose playback context is in use, a stop-all found the
\* active set empty and a watermark that earlier chunks had advanced.
C12_Witness ==
  /\ emptyStop > 0 /\ activeSourcesRef = {} /\ nextStartTimeRef = 0
  /\ \E a \in Attempts : conn[a] = "open" /\ outputAudioContextRef = a

(***************************************************************************)
(* C13.  Teardown is idempotent from every call site: a cleanupSession     *)
(* never closes an audio context that is already closed or stops a         *)
(* microphone track that is already stopped, and a second cleanupSession   *)
(* of the same closure right after it would change nothing.                *)
(***************************************************************************)
\* The step is a call site of the cleanupSession whose closure holds stream s.
Teardown(s) ==
  \/ (StartSessionNoKey \/ StartSession) /\ s = stream
  \/ \E a \in Attempts :
       (GetUserMediaFailed(a) \/ OnError(a) \/ OnClose(a)) /\ s = capStream[a]

FreesOnce(s) ==
  /\ s # 0 => tracks[s] # "stopped"
  /\ audioContextRef # 0 => ctxIn[audioContextRef] # "closed"
  /\ outputAudioContextRef # 0 => ctxOut[outputAudioContextRef] # "closed"

SecondChangesNothing(s) ==
  LET c == CleanupSession(s)' IN
  /\ c.activeSources = activeSourcesRef' /\ c.nextStartTime = nextStartTimeRef'
  /\ c.srcState = srcState' /\ c.tracks = tracks' /\ c.stream = stream'
  /\ c.audioContext = audioContextRef'
  /\ c.outputAudioContext = outputAudioContextRef'
  /\ c.sessionPromise = sessionPromiseRef'
  /\ \A a \in Attempts :
       /\ ctxIn'[a] = "closed" <=> c.ctxIn[a] = "closed"
       /\ ctxOut'[a] = "closed" <=> c.ctxOut[a] = "closed"

C13_TeardownIdempotent ==
  [][\A s \in 0..MaxAttempts :
       Teardown(s) => FreesOnce(s) /\ SecondChangesNothing(s)]_vars

(***************************************************************************)
(* The transcript across sessions: sessions that connect, close and are    *)
(* started again, messages with transcription fragments and grounding      *)
(* metadata, a scripted action and typed messages.                         *)
(***************************************************************************)
LogActions == {<<TreatText, HAPPY>>}

NextLog ==
  \/ Start \/ Resumed \/ Granted \/ Opened \/ Closed
  \/ Message(TextMsgs \cup GroundMsgs)
  \/ ActionOf(LogActions) \/ Typed \/ HandleSendMessage

SpecLog == Init /\ [][NextLog]_vars

(***************************************************************************)
(* C14.  The transcript is append-only: no step shortens it, every entry   *)
(* but the last stays as it is and where it is, and the last entry keeps   *)
(* its sender and can only get text appended and sources added.            *)
(***************************************************************************)
IsPrefix(s, t) == Len(s) <= Len(t) /\ SubSeq(t, 1, Len(s)) = s

C14_AppendOnly ==
  [][LET old == transcriptions
         new == transcriptions'
         n == Len(old)
     IN  /\ Len(new) >= n
         /\ \A i \in 1..(n - 1) : new[i] = old[i]
         /\ n > 0 => /\ new[n].sender = old[n].sender
                     /\ IsPrefix(old[n].text, new[n].text)
                     /\ IsPrefix(old[n].webSources, new[n].webSources)]_vars

\* After a restart the transcript holds an earlier entry and a last entry
\* that fragments and grounding metadata have extended.
C14_Witness ==
  /\ attempts = 2
  /\ Len(transcriptions) >= 2
  /\ Len(transcriptions[Len(transcriptions)].text) >= 2
  /\ Len(transcriptions[Len(transcriptions)].webSources) >= 1

(***************************************************************************)
(* TeacherBoard: the bar-chart layout of renderContent.  A number is a     *)
(* record [kind, n, d]: the rational n/d (d > 0) when kind is "num",       *)
(* Infinity with the sign of n when kind is "inf", NaN when kind is "nan". *)
(* Doubles are taken as exact rationals: rounding, overflow to Infinity    *)
(* and underflow to 0 are not modelled.                                    *)
(***************************************************************************)
Num(n, d) == [kind |-> "num", n |-> n, d |-> d]
Inf(sign) == [kind |-> "inf", n |-> sign, d |-> 1]
NaN == [kind |-> "nan", n |-> 0, d |-> 1]

\* a < b, for numbers other than NaN
Less(a, b) ==
  IF a.kind = "inf" THEN a.n < 0 /\ ~(b.kind = "inf" /\ b.n < 0)
  ELSE IF b.kind = "inf" THEN b.n > 0
  ELSE a.n * b.d < b.n * a.d

\* a = b as numbers
Same(a, b) == a.kind # "nan" /\ b.kind # "nan" /\ ~Less(a, b) /\ ~Less(b, a)

RECURSIVE Pow10(_)
Pow10(k) == IF k = 0 THEN 1 ELSE 10 * Pow10(k - 1)

Lower(c) == IF c \in 65..90 THEN c + 32 ELSE c
IsDigit(c) == c \in 48..57

StartsWith(text, i, word) ==
  /\ i + Len(word) - 1 <= Len(text)
  /\ \A k \in 1..Len(word) : text[i + k - 1] = word[k]

\* the same, ignoring case (the i flag)
StartsWithCI(text, i, word) ==
  /\ i + Len(word) - 1 <= Len(text)
  /\ \A k \in 1..Len(word) : Lower(text[i + k - 1]) = word[k]

\* the index after the white space that starts at i
RECURSIVE SkipSpaces(_, _)
SkipSpaces(text, i) ==
  IF i <= Len(text) /\ IsSpace(text[i]) THEN SkipSpaces(text, i + 1) ELSE i

\* the index after the digits that start at i
RECURSIVE DigitsEnd(_, _)
DigitsEnd(text, i) ==
  IF i <= Len(text) /\ IsDigit(text[i]) THEN DigitsEnd(text, i + 1) ELSE i

\* the number that the digits text[i..j-1] write
RECURSIVE DigitsValue(_, _, _)
DigitsValue(text, i, j) ==
  IF j <= i THEN 0 ELSE DigitsValue(text, i, j - 1) * 10 + (text[j - 1] - 48)

\* detail | content | value | description | step
Labels ==
  {<<100, 101, 116, 97, 105, 108>>, <<99, 111, 110, 116, 101, 110, 116>>,
   <<118, 97, 108, 117, 101>>,
   <<100, 101, 115, 99, 114, 105, 112, 116, 105, 111, 110>>,
   <<115, 116, 101, 112>>}

\* text.replace(/^(detail|content|value|description|step)(\s*:)?\s*/i, '')
CleanContent(text) ==
  IF \E w \in Labels : StartsWithCI(text, 1, w)
  THEN LET w == CHOOSE l \in Labels : StartsWithCI(text, 1, l)
           k == SkipSpaces(text, Len(w) + 1)
           m == IF k <= Len(text) /\ text[k] = 58
                THEN SkipSpaces(text, k + 1) ELSE k
       IN  SubSeq(text, m, Len(text))
  ELSE text

\* An item of the board is null (or undefined), a string, a number or an
\* object.  A record without `kind` is an object; a field that a record
\* lacks is undefined, which `||` treats as it treats ''.
ItemKind(item) == IF "kind" \in DOMAIN item THEN item.kind ELSE "object"
Field(item, f) == IF f \in DOMAIN item THEN item[f] ELSE <<>>

\* String(n) for an integer n
RECURSIVE DigitsOf(_)
DigitsOf(n) ==
  IF n < 10 THEN <<48 + n>> ELSE Append(DigitsOf(n \div 10), 48 + (n % 10))
NumberText(n) == IF n < 0 THEN <<45>> \o DigitsOf(-n) ELSE DigitsOf(n)

\* item.content || item.detail || item.text || item.value ||
\* item.description || ''
RawContent(item) ==
  LET fs == <<"content", "detail", "text", "value", "description">>
      hit == {i \in 1..Len(fs) : Field(item, fs[i]) # <<>>}
  IN  IF hit = {} THEN <<>>
      ELSE Field(item, fs[CHOOSE i \in hit : \A j \in hit : i <= j])

GetItemContent(item) ==
  CASE ItemKind(item) = "null" -> <<>>
    [] ItemKind(item) = "string" -> CleanContent(item.str)
    [] ItemKind(item) = "number" -> NumberText(item.num)
    [] OTHER -> CleanContent(RawContent(item))

InfinityText == <<73, 110, 102, 105, 110, 105, 116, 121>>

\* parseFloat: white space, a sign, then Infinity or the longest prefix that
\* is a decimal literal (digits, a fraction, an exponent)
ParseFloat(text) ==
  LET s == SkipSpaces(text, 1)
      signed == s <= Len(text) /\ text[s] \in {43, 45}
      sign == IF signed /\ text[s] = 45 THEN -1 ELSE 1
      p == IF signed THEN s + 1 ELSE s
      e1 == DigitsEnd(text, p)
      hasDot == e1 <= Len(text) /\ text[e1] = 46
      f == IF hasDot THEN e1 + 1 ELSE e1
      e2 == IF hasDot THEN DigitsEnd(text, f) ELSE e1
      nFrac == e2 - f
      mant == DigitsValue(text, p, e1) * Pow10(nFrac) + DigitsValue(text, f, e2)
      hasE == e2 <= Len(text) /\ text[e2] \in {69, 101}
      x == e2 + 1
      xSigned == hasE /\ x <= Len(text) /\ text[x] \in {43, 45}
      xp == IF xSigned THEN x + 1 ELSE x
      xe == IF hasE THEN DigitsEnd(text, xp) ELSE xp
      exp == IF hasE /\ xe > xp
             THEN (IF xSigned /\ text[x] = 45 THEN -1 ELSE 1)
                  * DigitsValue(text, xp, xe)
             ELSE 0
      k == exp - nFrac
  IN  IF StartsWith(text, p, InfinityText) THEN Inf(sign)
      ELSE IF (e1 - p) + nFrac = 0 THEN NaN
      ELSE IF k >= 0 THEN Num(sign * mant * Pow10(k), 1)
      ELSE Num(sign * mant, Pow10(-k))

\* v || 0
OrZero(v) ==
  IF v.kind = "nan" \/ (v.kind = "num" /\ v.n = 0) THEN Num(0, 1) ELSE v

\* parseFloat(getItemContent(i)) || 0
ItemValue(item) == OrZero(ParseFloat(GetItemContent(item)))

\* items.map(i => parseFloat(getItemContent(i)) || 0)
ItemValues(items) == [i \in 1..Len(items) |-> ItemValue(items[i])]

\* Math.max(...values, 1)
MaxVal(values) ==
  LET all == {values[i] : i \in 1..Len(values)} \cup {Num(1, 1)}
  IN  CHOOSE m \in all : \A v \in all : ~Less(m, v)

\* Math.max((val / maxVal) * 100, 5)
BarHeight(val, maxVal) ==
  IF maxVal.kind = "inf"
  THEN IF val.kind = "inf" THEN NaN ELSE Num(5, 1)
  ELSE IF val.kind = "inf" THEN Num(5, 1)
  ELSE LET r == Num(100 * val.n * maxVal.d, val.d * maxVal.n)
       IN  IF Less(r, Num(5, 1)) THEN Num(5, 1) ELSE r

\* the heights of the bars that renderContent draws for `items`
BarHeights(items) ==
  [i \in 1..Len(items) |->
     BarHeight(ItemValue(items[i]), MaxVal(ItemValues(items)))]

(***************************************************************************)
(* The board: a session that connects and stays open, updateBoard tool     *)
(* calls with bar charts, and the close button of the board.               *)
(***************************************************************************)
\* "10", "0", "bad", "Infinity", "Value: 2.5", "-3", " 1e2"
ChartContents ==
  {<<49, 48>>, <<48>>, <<98, 97, 100>>, InfinityText,
   <<86, 97, 108, 117, 101, 58, 32, 50, 46, 53>>, <<45, 51>>,
   <<32, 49, 101, 50>>}

BoardItem(kind, content, detail, text, value, description, str, num) ==
  [kind |-> kind, heading |-> "h", content |-> content, detail |-> detail,
   text |-> text, value |-> value, description |-> description,
   str |-> str, num |-> num]

\* an item of the tool's schema: an object with heading and content
ChartItem(c) == BoardItem("object", c, <<>>, <<>>, <<>>, <<>>, <<>>, 0)

\* items outside the schema: null, a string, a number, and objects that
\* carry their text in detail, text, value or description
OtherItems ==
  {BoardItem("null", <<>>, <<>>, <<>>, <<>>, <<>>, <<>>, 0),
   BoardItem("string", <<>>, <<>>, <<>>, <<>>, <<>>,
             <<86, 97, 108, 117, 101, 58, 32, 57>>, 0),
   BoardItem("number", <<>>, <<>>, <<>>, <<>>, <<>>, <<>>, 40),
   BoardItem("object", <<>>, <<55>>, <<>>, <<56>>, <<>>, <<>>, 0),
   BoardItem("object", <<>>, <<>>, <<>>,
             <<86, 97, 108, 117, 101, 58, 32, 57>>, <<>>, <<>>, 0),
   BoardItem("object", <<>>, <<>>, <<54>>, <<>>, <<51>>, <<>>, 0),
   BoardItem("object", <<>>, <<>>, <<>>, <<>>, <<51>>, <<>>, 0)}

ChartItems == {ChartItem(c) : c \in ChartContents} \cup OtherItems

ChartItemLists ==
  {<<a>> : a \in ChartItems} \cup
  {<<a, b>> : a, b \in ChartItems} \cup
  {<<ChartItem(a), ChartItem(b), ChartItem(c)>> : a, b, c \in ChartContents}

BoardMsgs ==
  {Msg(<<BoardCall([title |-> "Chart", visualType |-> "bar_chart",
                    items |-> l])>>, <<>>, <<>>, <<>>, 0, FALSE, FALSE) :
     l \in ChartItemLists}
  \cup {Msg(<<BoardCall(ListArgs)>>, <<>>, <<>>, <<>>, 0, FALSE, FALSE)}

NextBoard ==
  \/ Start \/ Resumed \/ Granted \/ Opened
  \/ Message(BoardMsgs)
  \/ CloseBoard

SpecBoard == Init /\ [][NextBoard]_vars

(***************************************************************************)
(* C15.  Every bar of a visible bar chart has a height between 5 and 100;  *)
(* a bar whose value is the largest of the chart and at least 1 has height *)
(* 100, and a bar whose value is 0 has height 5.                           *)
(***************************************************************************)
C15_BarHeights ==
  (boardContent.isVisible /\ boardContent.visualType = "bar_chart") =>
    LET items == boardContent.items
        values == ItemValues(items)
        heights == BarHeights(items)
    IN  \A i \in 1..Len(items) :
          /\ heights[i].kind = "num"
          /\ ~Less(heights[i], Num(5, 1)) /\ ~Less(Num(100, 1), heights[i])
          /\ (Same(values[i], MaxVal(values)) /\ ~Less(values[i], Num(1, 1)))
               => Same(heights[i], Num(100, 1))
          /\ Same(values[i], Num(0, 1)) => Same(heights[i], Num(5, 1))

(***************************************************************************)
(* Turns: a session that connects and stays open, audio chunks with and    *)
(* without the turn-complete and interruption markers, the markers alone,  *)
(* playback, the auto-revert timer and the Treat button, which makes the   *)
(* mood Happy (the Love button sets the same mood, the Chart button the    *)
(* mood that an audio chunk sets).                                         *)
(***************************************************************************)
TurnMsgs == {m \in AudioMsgs : m.audio = 1} \cup MarkerMsgs
TurnActions == {<<TreatText, HAPPY>>}

NextTurn ==
  \/ Start \/ Resumed \/ Granted \/ Opened
  \/ Message(TurnMsgs)
  \/ Playback
  \/ MoodTimer \/ Effects
  \/ ActionOf(TurnActions)

SpecTurn == Init /\ [][NextTurn]_vars

\* handleSessionMessage runs to its end for a message m without decoding.
HandledWhole(m) ==
  /\ m.audio = 0 \/ outputAudioContextRef = 0
  /\ \E a \in Attempts : HandleSessionMessage(a, m)

\* handleSessionMessage reaches its await of decodeAudioData for m.
HandledToAwait(m) ==
  /\ m.audio # 0 /\ outputAudioContextRef # 0
  /\ \E a \in Attempts : HandleSessionMessage(a, m)

(***************************************************************************)
(* C16.  When the handling of a message that carries the interruption      *)
(* marker ends, whatever the mood and the scheduler state were, every      *)
(* buffer of the active set (the message's own chunk included) has been    *)
(* stopped, the active set is empty, the watermark is 0 and the mood is    *)
(* Listening.                                                              *)
(***************************************************************************)
Interrupted(stopped) ==
  /\ activeSourcesRef' = {} /\ nextStartTimeRef' = 0 /\ dogState' = LISTENING
  /\ \A c \in stopped : srcState'[c] = "stopped"

C16_InterruptStopsAll ==
  [][/\ \A m \in TurnMsgs :
          (m.interrupted /\ HandledWhole(m)) => Interrupted(activeSourcesRef)
     /\ \A d \in decoding :
          (d.interrupted /\ DecodeDone(d))
            => Interrupted(activeSourcesRef \cup {d.id})]_vars

\* An interruption that came after a scripted action stopped chunk 1,
\* which has not reported its end: message 2 ran stop-all, and the mood is
\* Listening while the timer of the Happy episode is still pending.
C16_Witness ==
  /\ stoppedAt = 2 /\ HAPPY \in moodTimers /\ timerFired = "none"
  /\ dogState = LISTENING
  /\ srcState[1] = "stopped" /\ srcState[2] = "none"
  /\ activeSourcesRef = {} /\ nextStartTimeRef = 0

(***************************************************************************)
(* C17.  A message with an audio chunk that arrives while a playback       *)
(* context exists sets the mood to Speaking, unless the mood is Angry,     *)
(* which stays; in both cases its decode is awaited, and when the decode   *)
(* resolves the chunk is started and added to the active set.              *)
(***************************************************************************)
C17_SpeakingUnlessAngry ==
  [][/\ \A m \in TurnMsgs :
          HandledToAwait(m) =>
            /\ dogState' = IF dogState = ANGRY THEN ANGRY ELSE SPEAKING
            /\ \E d \in decoding' \ decoding : d.id = delivered'
     /\ \A d \in decoding :
          DecodeDone(d) =>
            /\ sched'[Len(sched')].id = d.id
            /\ srcState[d.id] = "none"
            /\ IF d.interrupted THEN srcState'[d.id] = "stopped"
               ELSE srcState'[d.id] = "scheduled" /\ d.id \in activeSourcesRef']_vars

\* With no scripted action so far, an audio chunk has made the mood Speaking
\* and is in the active set.
C17_Witness ==
  /\ transcriptions = <<>> /\ barkCount = 0
  /\ dogState = SPEAKING
  /\ \E c \in activeSourcesRef : srcState[c] = "scheduled"

(***************************************************************************)
(* C18.  The natural end of a chunk that leaves the active set empty, and  *)
(* a turn-complete marker handled while the active set is empty, set the   *)
(* mood to Listening whatever it was; with a non-empty active set each     *)
(* leaves the mood as it was.                                              *)
(***************************************************************************)
C18_ListeningWhenDrained ==
  [][/\ \A c \in Chunks :
          NaturalEnd(c) =>
            dogState' = IF activeSourcesRef \ {c} = {} THEN LISTENING
                        ELSE dogState
     /\ \A m \in TurnMsgs :
          (m.turnComplete /\ ~m.interrupted /\ HandledWhole(m)) =>
            dogState' = IF activeSourcesRef = {} THEN LISTENING ELSE dogState
     /\ \A d \in decoding :
          (d.turnComplete /\ ~d.interrupted /\ DecodeDone(d)) =>
            dogState' = dogState]_vars

\* The natural end of the only chunk set Listening after a scripted action:
\* no stop-all has run since the chunk was started, the chunk has ended, and
\* the timer of the Happy episode is still pending.
C18_Witness ==
  /\ HAPPY \in moodTimers /\ timerFired = "none"
  /\ dogState = LISTENING
  /\ delivered = 1 /\ Len(sched) = 1 /\ srcState[1] = "ended"

(***************************************************************************)
(* Turns of text: output and input fragments, an output fragment that      *)
(* ends its turn, the turn-complete marker alone, and the user's own text. *)
(***************************************************************************)
TurnTextMsgs ==
  TextMsgs \cup {Msg(<<>>, <<>>, <<>>, <<>>, 0, TRUE, FALSE),
                 Msg(<<>>, <<98>>, <<>>, <<>>, 0, TRUE, FALSE)}

NextTurnText ==
  \/ Start \/ Resumed \/ Granted \/ Opened
  \/ Message(TurnTextMsgs)
  \/ Typed
  \/ HandleSendMessage

SpecTurnText == Init /\ [][NextTurnText]_vars

(***************************************************************************)
(* C19.  An output fragment is appended to the last transcript entry       *)
(* exactly when that entry is the agent's and no turn-complete marker was  *)
(* handled since the agent's last fragment; otherwise (a new turn, a last  *)
(* entry of the user, an empty transcript) it starts a new entry.          *)
(***************************************************************************)
C19_NewTurnNewEntry ==
  [][\A m \in TurnTextMsgs :
       (m.outText # <<>> /\ m.inText = <<>> /\ HandledWhole(m)) =>
         LET n == Len(transcriptions)
             continues == /\ n > 0
                          /\ transcriptions[n].sender = "dog"
                          /\ turnOpen
         IN  IF continues
             THEN /\ Len(transcriptions') = n
                  /\ transcriptions'[n].text = transcriptions[n].text \o m.outText
             ELSE /\ Len(transcriptions') = n + 1
                  /\ transcriptions'[n + 1].sender = "dog"
                  /\ transcriptions'[n + 1].text = m.outText]_vars

(***************************************************************************)
(* C20.  Without a credential, startSession requests no microphone,        *)
(* creates no audio context and opens no connection; the mood is never     *)
(* Connecting; the call ends with the mood Idle and the error message set, *)
(* and leaves nothing pending that would start again (no session attempt,  *)
(* no step of one, no timer).                                              *)
(***************************************************************************)
NothingStarted ==
  /\ attempts = 0 /\ stream = 0 /\ sessionPromiseRef = 0
  /\ audioContextRef = 0 /\ outputAudioContextRef = 0
  /\ \A a \in Attempts :
       /\ pc[a] = "none" /\ tracks[a] = "none" /\ conn[a] = "none"
       /\ ctxIn[a] = "none" /\ ctxOut[a] = "none"
  /\ dogState # CONNECTING

C20_NoCredentialNoSession ==
  /\ ~apiKey => NothingStarted
  /\ [][/\ ~apiKey => NothingStarted'
        /\ (~apiKey /\ StartSessionNoKey) =>
             /\ dogState' = IDLE
             /\ error' = "Invalid API Key"
             /\ moodTimers' = {} /\ watchdogs' = {}
             /\ decoding' = {} /\ ~levelLoop']_vars

\* startSession has run without a credential.
C20_Witness ==
  /\ ~apiKey /\ error = "Invalid API Key" /\ dogState = IDLE
  /\ NothingStarted

(***************************************************************************)
(* C21.  A mood of Listening, Speaking, Happy or Angry implies that a      *)
(* session handle is present: after onerror or onclose has torn the        *)
(* session down, no late callback takes the mood out of Idle.              *)
(***************************************************************************)
C21_MoodNeedsSession ==
  dogState \in {LISTENING, SPEAKING, HAPPY, ANGRY} => sessionPromiseRef # 0

(***************************************************************************)
(* C22.  onerror and onclose of a connection that an earlier startSession  *)
(* opened, delivered after a later startSession, leave the current         *)
(* session alone: the mood, the session handle, the stream and its tracks, *)
(* the audio contexts and the playback set are as they were.               *)
(***************************************************************************)
Superseded(a) == a < attempts

CurrentSessionKept ==
  /\ dogState' = dogState
  /\ sessionPromiseRef' = sessionPromiseRef
  /\ stream' = stream
  /\ audioContextRef' = audioContextRef
  /\ outputAudioContextRef' = outputAudioContextRef
  /\ ctxIn'[attempts] = ctxIn[attempts]
  /\ ctxOut'[attempts] = ctxOut[attempts]
  /\ tracks'[attempts] = tracks[attempts]
  /\ activeSourcesRef' = activeSourcesRef

C22_OldCallbacksIgnored ==
  [][\A a \in Attempts :
       (Superseded(a) /\ (OnError(a) \/ OnClose(a))) => CurrentSessionKept]_vars

(***************************************************************************)
(* C23.  A chunk whose message was received before stop-all last ran (for  *)
(* an interruption or a teardown) is not in the active set afterwards:     *)
(* the active set holds only chunks received after the last stop-all.      *)
(***************************************************************************)
C23_NoStartAfterStopAll == \A c \in activeSourcesRef : c > stoppedAt
====
